---------------------------- MODULE Spec2Model ----------------------------
(***************************************************************************)
(* A model of the chunked job-queue engine of marker/scripts/server_ui.py. *)
(*                                                                         *)
(* The server runs on one asyncio event loop.  A coroutine keeps the loop  *)
(* until it suspends; the only suspension inside the queue processor is    *)
(* `await asyncio.to_thread(converter, ...)` (put() on an unbounded        *)
(* asyncio.Queue never suspends), and a task made by asyncio.create_task   *)
(* starts at a later turn of the loop.  Request handlers therefore run     *)
(* only while no process_queue task holds the loop (LoopFree).             *)
(*                                                                         *)
(* Job ids (uuid4 in the code) are the submission numbers 1, 2, ...        *)
(* Exceptions are modelled for the steps of process_job, which run under   *)
(* the try/except of process_queue; request handlers and                   *)
(* save_job_to_history are modelled on their non-raising path.             *)
(***************************************************************************)
EXTENDS Integers, Sequences, FiniteSets, TLC

\* ------------------------------------------------------------- bounds
MaxJobs == 2
MaxClients == 1
MaxPageCount == 60
MaxStreamJobs == 1
MaxChunkResults == 3

\* ---------------------------------------------------------- constants
MAX_PAGES_PER_CHUNK == 5

None == 0
Unset == -1

JobIds == 1..MaxJobs
TaskIds == 1..MaxJobs
ClientIds == 1..MaxClients

\* the documents submitted in the queue model, each with its page count and
\* the pages that carry an image: an empty document, a single-chunk document
\* and a three-chunk document with images in its first and last chunk
Documents == { [page_count |-> 0, image_pages |-> {}],
               [page_count |-> 3, image_pages |-> {}],
               [page_count |-> 12, image_pages |-> {0, 10}] }

\* (output_markdown, output_json, output_images) form values of add_to_queue
\* (the defaults, and their complement)
OutputOptions == { <<TRUE, FALSE, TRUE>>, <<FALSE, TRUE, FALSE>> }

VARIABLES
    jobs,           \* queue_state["jobs"]: deque of pending job ids
    current_job,    \* queue_state["current_job"]: job id or None
    sse_clients,    \* queue_state["sse_clients"]: registered client queues
    processing,     \* queue_state["processing"]
    job,            \* the job dicts, by id
    n_submitted,    \* number of ids handed out so far
    uploads,        \* UPLOAD_DIR: ids whose source file exists
    queue_table,    \* table `queue`: ids with a row
    history,        \* table `jobs`: id -> row
    outputs,        \* OUTPUT_DIR/<id>: artifacts written per job
    output_dirs,    \* OUTPUT_DIR/<id> directories that exist
    clock,          \* datetime.now(), as a counter of store writes
    n_scheduled,    \* process_queue tasks created and not yet started
    task,           \* the started process_queue tasks and their local variables
                    \* (converter: the chunk whose PdfConverter is alive)
    client_queue,   \* per client: the messages put on its asyncio.Queue
    start_order,    \* ids in the order they became current_job
    removed,        \* ids cancelled by remove_from_queue
    invoked,        \* <<id, chunk index>> of every converter invocation
    history_writes, \* per id: number of save_job_to_history calls
    emitted,        \* ids whose job_complete event was sent
    refused,        \* a cancellation of the job that is current now got a 404
    raised,         \* per id: the step of process_job that raised (or ""), and
                    \* the chunk it was at
    first_event,    \* per client: the snapshot its event_generator yielded first
    page_in,        \* input of the chunk planner run on its own
    chunks_out,     \* its output
    merge_in,       \* input of the result merger run on its own
    merge_out,      \* its output
    drive_folder,   \* the Drive upload folder: per file id, its MIME type or absent
    gdrive_processed, \* table gdrive_processed: drive_file_id -> job_id
    poll,           \* the running poll_and_queue call and its local variables
    n_polls,        \* number of poll_and_queue calls started
    poll_log,       \* per file handled by a poll: how far its iteration got
    completions     \* the on_job_complete calls made: <<job id, success>>

poller_vars == << drive_folder, gdrive_processed, poll, n_polls, poll_log, completions >>

vars == << jobs, current_job, sse_clients, processing, job, n_submitted, uploads,
           queue_table, history, outputs, output_dirs, clock, n_scheduled, task,
           client_queue, start_order, removed, invoked, history_writes, emitted,
           raised, refused, first_event, page_in, chunks_out, merge_in, merge_out, poller_vars >>

queue_vars == << jobs, current_job, sse_clients, processing, job, n_submitted, uploads,
           queue_table, history, outputs, output_dirs, clock, n_scheduled, task,
           client_queue, start_order, removed, invoked, history_writes, emitted, raised,
           refused, first_event >>

\* ------------------------------------------------------------ helpers
Min(a, b) == IF a < b THEN a ELSE b

\* list(range(a, b))
Range(a, b) == [i \in 1..(IF b > a THEN b - a ELSE 0) |-> a + i - 1]

\* dict.get(key, default)
Get(v, default) == IF v = Unset THEN default ELSE v

RECURSIVE Flatten(_)
Flatten(ss) == IF ss = <<>> THEN <<>> ELSE Head(ss) \o Flatten(Tail(ss))


\* ------------------------------------------------------- chunk planner
\* (mutant) every range takes one page more than its share
RECURSIVE ChunksFrom_overlap(_, _)
ChunksFrom_overlap(start, page_count) ==
    IF start >= page_count THEN <<>>
    ELSE << Range(start, Min(start + MAX_PAGES_PER_CHUNK + 1, page_count)) >>
         \o ChunksFrom_overlap(start + MAX_PAGES_PER_CHUNK, page_count)

\* the for-loop of calculate_chunks, from `start` on
RECURSIVE ChunksFrom(_, _)
ChunksFrom(start, page_count) ==
    IF start >= page_count THEN <<>>
    ELSE << Range(start, Min(start + MAX_PAGES_PER_CHUNK, page_count)) >>
         \o ChunksFrom(start + MAX_PAGES_PER_CHUNK, page_count)

calculate_chunks(page_count) ==
    IF page_count <= MAX_PAGES_PER_CHUNK
    THEN << Range(0, page_count) >>
    ELSE ChunksFrom(0, page_count)

\* ------------------------------------------------------- result merger
\* the separator line, as one token of a text
separator == << -1 >>

RECURSIVE JoinTexts(_)
JoinTexts(results) ==
    IF results = <<>> THEN <<>>
    ELSE IF Len(results) = 1 THEN results[1].text
    ELSE results[1].text \o separator \o JoinTexts(Tail(results))

\* (mutant) a name already present keeps its image
MapUpdate_first_wins(m1, m2) ==
    [k \in (DOMAIN m1) \cup (DOMAIN m2) |-> IF k \in DOMAIN m1 THEN m1[k] ELSE m2[k]]

\* dict.update
MapUpdate(m1, m2) ==
    [k \in (DOMAIN m1) \cup (DOMAIN m2) |-> IF k \in DOMAIN m2 THEN m2[k] ELSE m1[k]]

RECURSIVE MergeImages(_)
MergeImages(results) ==
    IF results = <<>> THEN <<>>
    ELSE MapUpdate(Head(results).images, MergeImages(Tail(results)))

RECURSIVE MergeStats(_)
MergeStats(results) ==
    IF results = <<>> THEN <<>>
    ELSE (IF "page_stats" \in DOMAIN Head(results).metadata
          THEN Head(results).metadata.page_stats ELSE <<>>)
         \o MergeStats(Tail(results))

\* (mutant) a single result goes through the merge of several
merge_chunk_results_always_join(chunk_results) ==
    [text |-> JoinTexts(chunk_results),
     images |-> MergeImages(chunk_results),
     metadata |-> [table_of_contents |->
                       IF "table_of_contents" \in DOMAIN chunk_results[1].metadata
                       THEN chunk_results[1].metadata.table_of_contents ELSE <<>>,
                   chunk_count |-> Len(chunk_results),
                   page_stats |-> MergeStats(chunk_results)]]

merge_chunk_results(chunk_results) ==
    IF Len(chunk_results) = 1
    THEN [text |-> chunk_results[1].text,
          images |-> chunk_results[1].images,
          metadata |-> chunk_results[1].metadata]
    ELSE [text |-> JoinTexts(chunk_results),
          images |-> MergeImages(chunk_results),
          metadata |-> [table_of_contents |->
                            IF "table_of_contents" \in DOMAIN chunk_results[1].metadata
                            THEN chunk_results[1].metadata.table_of_contents ELSE <<>>,
                        chunk_count |-> Len(chunk_results),
                        page_stats |-> MergeStats(chunk_results)]]

\* what one converter invocation returns for a page range of a document:
\* the text is the pages in order, one page_stats entry per page, and one
\* image, named after its page, for every page of the range that carries one
Rendered(page_range, image_pages) ==
    [text |-> page_range,
     images |-> [n \in {page_range[i] : i \in DOMAIN page_range} \cap image_pages |-> n],
     metadata |-> [table_of_contents |-> << page_range[1] >>, page_stats |-> page_range],
     page_range |-> page_range]

\* ------------------------------------------------------------ the data
NoJob == [page_count |-> 0, image_pages |-> {}, output_markdown |-> FALSE, output_json |-> FALSE,
          output_images |-> FALSE, total_chunks |-> Unset, current_chunk |-> Unset,
          percent |-> Unset]

NoRow == [status |-> "none", completed_at |-> 0, has_markdown |-> FALSE,
          has_json |-> FALSE, has_images |-> FALSE, error_message |-> "",
          total_chunks |-> 0]

NoTask == [pc |-> "none", job |-> None, chunks |-> <<>>, chunk_idx |-> 0,
           chunk_results |-> <<>>, merged |-> <<>>, has_markdown |-> FALSE,
           has_json |-> FALSE, has_images |-> FALSE, err |-> "",
           converter |-> None, released |-> 0]

NoRaise == [cause |-> "", chunk |-> 0]

\* the positions at which a process_queue task holds the event loop
RunningPcs == {"loop", "process_job", "chunk_start", "merge", "save_markdown",
               "save_json", "save_images", "finish", "unlink", "db_delete",
               "except", "job_done"}

\* (mutant) the converter runs on the event loop, not in a thread
LoopFree_converter_on_loop ==
    \A t \in TaskIds : task[t].pc \notin RunningPcs \cup {"converting"}

\* no task holds the event loop: a request handler can run
LoopFree == \A t \in TaskIds : task[t].pc \notin RunningPcs

Terminal == {"complete", "error"}

\* ------------------------------------------------------ queue snapshot
\* (mutant) the current job is listed after the pending ones
get_queue_data_current_last(cur, pending, jb) ==
    [i \in 1..Len(pending) |->
            [id |-> pending[i], status |-> "queued", total_chunks |-> 1,
             current_chunk |-> 0, percent |-> 0]]
    \o (IF cur # None
        THEN << [id |-> cur, status |-> "processing",
                 total_chunks |-> Get(jb[cur].total_chunks, 1),
                 current_chunk |-> Get(jb[cur].current_chunk, 1),
                 percent |-> Get(jb[cur].percent, 0)] >>
        ELSE <<>>)

get_queue_data(cur, pending, jb) ==
    (IF cur # None
     THEN << [id |-> cur, status |-> "processing",
              total_chunks |-> Get(jb[cur].total_chunks, 1),
              current_chunk |-> Get(jb[cur].current_chunk, 1),
              percent |-> Get(jb[cur].percent, 0)] >>
     ELSE <<>>)
    \o [i \in 1..Len(pending) |->
            [id |-> pending[i], status |-> "queued", total_chunks |-> 1,
             current_chunk |-> 0, percent |-> 0]]

QueueUpdate(cur, pending, jb) ==
    [type |-> "queue_update", job_id |-> None, queue |-> get_queue_data(cur, pending, jb)]

\* no event yet
NoEvent == [type |-> "none", job_id |-> None, queue |-> <<>>]

JobComplete(id) == [type |-> "job_complete", job_id |-> id, queue |-> <<>>]

\* (mutant) job_complete reaches only the first client of the set
PutAll_complete_to_one(cq, clients, message) ==
    [c \in DOMAIN cq |->
        IF c \in clients /\ (message.type = "job_complete" => \A d \in clients : c <= d)
        THEN Append(cq[c], message) ELSE cq[c]]

\* client_queue.put(message) for every client of the set
PutAll(cq, clients, message) ==
    [c \in DOMAIN cq |-> IF c \in clients THEN Append(cq[c], message) ELSE cq[c]]

\* (mutant) only the observers whose snapshot was already yielded are served
broadcast_queue_update_started_only(cq, cur, pending, jb) ==
    PutAll(cq, { c \in sse_clients : first_event[c] # NoEvent },
           QueueUpdate(cur, pending, jb))

broadcast_queue_update(cq, cur, pending, jb) ==
    PutAll(cq, sse_clients, QueueUpdate(cur, pending, jb))

\* update_job_progress: the job dict after the assignments
Progress(jb, id, percent, current_chunk) ==
    [jb EXCEPT ![id].percent = percent,
               ![id].current_chunk = IF current_chunk = Unset THEN @ ELSE current_chunk]

\* (mutant) the row keeps the flags of the row it replaces
save_job_to_history_flags_kept(h, id, status, error_message, hm, hj, hi) ==
    [h EXCEPT ![id] = [status |-> status, completed_at |-> clock + 1,
                       has_markdown |-> hm \/ h[id].has_markdown,
                       has_json |-> hj \/ h[id].has_json,
                       has_images |-> hi \/ h[id].has_images,
                       error_message |-> error_message,
                       total_chunks |-> Get(job[id].total_chunks, 1)]]

\* INSERT OR REPLACE INTO jobs
save_job_to_history(h, id, status, error_message, hm, hj, hi) ==
    [h EXCEPT ![id] = [status |-> status, completed_at |-> clock + 1,
                       has_markdown |-> hm, has_json |-> hj, has_images |-> hi,
                       error_message |-> error_message,
                       total_chunks |-> Get(job[id].total_chunks, 1)]]


\* ------------------------------------------ the Google Drive poller
\* (marker/integrations/google_drive.py)
MaxDriveFiles == 3
MaxPolls == 2

\* Drive file ids, numbered in the order of createdTime
DriveFileIds == 1..MaxDriveFiles
PDF_MIME_TYPES == { "application/pdf" }
MimeTypes == { "application/pdf", "image/png" }
Absent == "absent"

\* the steps of the try block of poll_and_queue, in the order they run;
\* an iteration ends at the step that raised, or at "done"
PollSteps == << "download", "enqueue", "record", "done" >>
StepIndex(step) == CHOOSE i \in 1..Len(PollSteps) : PollSteps[i] = step

\* (mutant) every step of the try block counts as completed
Completed_always(step, s) == TRUE

\* step s of the try block ran to its end in an iteration that ended at `step`
Completed(step, s) == StepIndex(s) < StepIndex(step)

\* (mutant) no file is ever found in the table
_is_file_processed_never(table, drive_file_id) == FALSE

\* SELECT 1 FROM gdrive_processed WHERE drive_file_id = ?
_is_file_processed(table, drive_file_id) ==
    \E row \in table : row.drive_file_id = drive_file_id

\* INSERT OR REPLACE INTO gdrive_processed (drive_file_id is the primary key)
_mark_file_processed(table, drive_file_id, job_id) ==
    { row \in table : row.drive_file_id # drive_file_id }
        \cup { [drive_file_id |-> drive_file_id, job_id |-> job_id] }

\* files().list(... orderBy='createdTime'), then the filter on the MIME type
\* and on the table
list_new_files(folder, table) ==
    LET files == SelectSeq([i \in 1..MaxDriveFiles |-> i],
                           LAMBDA f : folder[f] # Absent)
    IN SelectSeq(files, LAMBDA f : /\ folder[f] \in PDF_MIME_TYPES
                                   /\ ~_is_file_processed(table, f))

\* the job ids the enqueue callback hands out: 1, 2, ... in the order of its
\* successful calls
EnqueueReturns(log) ==
    Cardinality({ i \in 1..Len(log) : Completed(log[i].step, "enqueue") }) + 1

NoPoll == [pc |-> "idle", new_files |-> <<>>, job_ids |-> <<>>, listed |-> <<>>]

\* no upload folder, no poll
PollerOff ==
    /\ drive_folder = [f \in DriveFileIds |-> Absent]
    /\ gdrive_processed = {}
    /\ poll = NoPoll
    /\ n_polls = 0
    /\ poll_log = <<>>
    /\ completions = {}

\* ------------------------------------------------------------- Init
\* the queue, the stores and the tasks at startup
InitState ==
    /\ jobs = <<>>
    /\ current_job = None
    /\ processing = FALSE
    /\ job = [j \in JobIds |-> NoJob]
    /\ n_submitted = 0
    /\ uploads = {}
    /\ queue_table = {}
    /\ history = [j \in JobIds |-> NoRow]
    /\ outputs = [j \in JobIds |-> {}]
    /\ output_dirs = {}
    /\ clock = 0
    /\ n_scheduled = 0
    /\ task = [t \in TaskIds |-> NoTask]
    /\ start_order = <<>>
    /\ removed = {}
    /\ invoked = {}
    /\ history_writes = [j \in JobIds |-> 0]
    /\ emitted = {}
    /\ raised = [j \in JobIds |-> NoRaise]
    /\ refused = FALSE

\* the input and the output of the result merger when it is not run on its own
NoMerge == [done |-> FALSE, text |-> <<>>, images |-> <<>>, metadata |-> <<>>]

InitQueue ==
    /\ InitState
    /\ sse_clients = {}
    /\ client_queue = [c \in ClientIds |-> <<>>]
    /\ first_event = [c \in ClientIds |-> NoEvent]

Init ==
    /\ InitQueue
    /\ page_in = 0
    /\ chunks_out = [done |-> FALSE, chunks |-> <<>>]
    /\ merge_in = <<>>
    /\ merge_out = NoMerge
    /\ PollerOff

\* --------------------------------------------------- request handlers
\* (mutant) no task is created for the submission
create_task_missing(n) == n

\* asyncio.create_task(process_queue()): one more task waits to start
create_task(n) == n + 1

\* POST /queue/add: the upload is written, the job appended, its queue row
\* inserted, the queue broadcast and a process_queue task created
add_to_queue(doc, opts) ==
    /\ LoopFree
    /\ n_submitted < MaxJobs
    /\ LET id == n_submitted + 1
           jb == [job EXCEPT ![id] = [NoJob EXCEPT !.page_count = doc.page_count,
                                                   !.image_pages = doc.image_pages,
                                                   !.output_markdown = opts[1],
                                                   !.output_json = opts[2],
                                                   !.output_images = opts[3]]]
           pending == Append(jobs, id)
       IN /\ n_submitted' = id
          /\ uploads' = uploads \cup {id}
          /\ job' = jb
          /\ jobs' = pending
          /\ queue_table' = queue_table \cup {id}
          /\ client_queue' = broadcast_queue_update(client_queue, current_job, pending, jb)
          /\ n_scheduled' = create_task(n_scheduled)
    /\ UNCHANGED << current_job, sse_clients, processing, history, outputs, output_dirs,
                    clock, task, start_order, removed, invoked, history_writes, emitted,
                    raised, refused, first_event, page_in, chunks_out, merge_in, merge_out, poller_vars >>

\* (mutant) the job stays in the deque
RemoveJob_kept(pending, id) == pending

\* deque.remove(job)
RemoveJob(pending, id) == SelectSeq(pending, LAMBDA x : x # id)

\* (mutant) the current job is found as well
InQueue_or_current(pending, id) ==
    (\E i \in 1..Len(pending) : pending[i] = id) \/ id = current_job

\* for i, job in enumerate(queue_state["jobs"]): if job["id"] == job_id
InQueue(pending, id) == \E i \in 1..Len(pending) : pending[i] = id

\* DELETE /queue/{job_id}
remove_from_queue(job_id) ==
    /\ LoopFree
    /\ IF InQueue(jobs, job_id)
       THEN LET pending == RemoveJob(jobs, job_id)
            IN /\ jobs' = pending
               /\ uploads' = uploads \ {job_id}
               /\ queue_table' = queue_table \ {job_id}
               /\ client_queue' = broadcast_queue_update(client_queue, current_job, pending, job)
               /\ removed' = removed \cup {job_id}
               /\ UNCHANGED refused
       ELSE \* HTTPException(404)
            /\ refused' = (refused \/ job_id = current_job)
            /\ UNCHANGED << jobs, uploads, queue_table, client_queue, removed >>
    /\ UNCHANGED << current_job, sse_clients, processing, job, n_submitted, history, outputs,
                    output_dirs, clock, n_scheduled, task, start_order, invoked, history_writes, emitted,
                    raised, first_event, page_in, chunks_out, merge_in, merge_out, poller_vars >>

\* GET /queue/stream: a new asyncio.Queue is registered
queue_stream(c) ==
    /\ LoopFree
    /\ c \notin sse_clients
    /\ sse_clients' = sse_clients \cup {c}
    /\ UNCHANGED << jobs, current_job, processing, job, n_submitted, uploads, queue_table,
                    history, outputs, output_dirs, clock, n_scheduled, task, client_queue,
                    start_order, removed, invoked, history_writes, emitted,
                    raised, refused, first_event, page_in, chunks_out, merge_in, merge_out, poller_vars >>

\* the first step of event_generator, at a later turn of the loop: the
\* snapshot of get_queue_data() is yielded before anything of the queue
event_generator_start(c) ==
    /\ LoopFree
    /\ c \in sse_clients
    /\ first_event[c] = NoEvent
    /\ first_event' = [first_event EXCEPT ![c] = QueueUpdate(current_job, jobs, job)]
    /\ UNCHANGED << jobs, current_job, sse_clients, processing, job, n_submitted, uploads,
                    queue_table, history, outputs, output_dirs, clock, n_scheduled, task,
                    client_queue, start_order, removed, invoked, history_writes, emitted,
                    raised, refused, page_in, chunks_out, merge_in, merge_out, poller_vars >>

\* the `finally` of event_generator, when the client goes away: the channel
\* is discarded and its queue, which nothing reads any more, is dropped
stream_closed(c) ==
    /\ LoopFree
    /\ c \in sse_clients
    /\ sse_clients' = sse_clients \ {c}
    /\ client_queue' = [client_queue EXCEPT ![c] = <<>>]
    /\ first_event' = [first_event EXCEPT ![c] = NoEvent]
    /\ UNCHANGED << jobs, current_job, processing, job, n_submitted, uploads, queue_table,
                    history, outputs, output_dirs, clock, n_scheduled, task,
                    start_order, removed, invoked, history_writes, emitted,
                    raised, refused, page_in, chunks_out, merge_in, merge_out, poller_vars >>


\* the HTTP status of a download: the file, or HTTPException(status_code=404)
Ok == 200
NotFound == 404

\* GET /download/{job_id}/markdown: the first *.md of OUTPUT_DIR/<id>
download_markdown(job_id) == IF "markdown" \in outputs[job_id] THEN Ok ELSE NotFound

\* GET /download/{job_id}/json: the first *.json of OUTPUT_DIR/<id>
download_json(job_id) == IF "json" \in outputs[job_id] THEN Ok ELSE NotFound

\* GET /download/{job_id}/images: the files of OUTPUT_DIR/<id>/images, zipped
download_images(job_id) == IF "images" \in outputs[job_id] THEN Ok ELSE NotFound

\* GET /history: the rows of table `jobs`, newest first (created_at follows
\* the submission order)
get_history(h) ==
    LET Rows[n \in 0..MaxJobs] ==
            IF n = 0 THEN <<>>
            ELSE (IF h[n].status # "none"
                  THEN << [id |-> n, status |-> h[n].status,
                           completed_at |-> h[n].completed_at,
                           has_markdown |-> h[n].has_markdown,
                           has_json |-> h[n].has_json,
                           has_images |-> h[n].has_images,
                           error_message |-> h[n].error_message,
                           total_chunks |-> h[n].total_chunks] >>
                  ELSE <<>>) \o Rows[n - 1]
    IN Rows[MaxJobs]

\* ------------------------------------------------- the queue processor
stores == << uploads, queue_table, history, outputs, output_dirs, clock, history_writes >>
planner_vars == << page_in, chunks_out, merge_in, merge_out, poller_vars >>
\* unchanged by every step of a started task
idle_vars == << n_scheduled, first_event, page_in, chunks_out, merge_in, merge_out, poller_vars >>
\* unchanged by every step of process_job
loop_vars == << jobs, current_job, sse_clients, processing, n_submitted, start_order,
                removed, emitted, refused >>

\* the tasks are anonymous: a started task takes the first free slot
FreeSlot(t) ==
    /\ task[t].pc = "none"
    /\ \A u \in TaskIds : u < t => task[u].pc # "none"

\* the chunk (1-based) an exception of the chunk loop belongs to
RaisedAt(t, cause) ==
    [cause |-> cause,
     chunk |-> IF cause \in {"index", "convert"} THEN task[t].chunk_idx + 1 ELSE 0]

\* (mutant) a failed conversion is skipped and the chunk loop goes on
Raise_continue(t, cause) ==
    /\ task' = IF cause = "convert"
               THEN [task EXCEPT ![t].pc = IF task[t].chunk_idx + 1 < Len(task[t].chunks)
                                           THEN "chunk_start" ELSE "merge",
                                 ![t].chunk_idx = @ + 1]
               ELSE [task EXCEPT ![t].pc = "except", ![t].err = cause]
    /\ raised' = [raised EXCEPT ![task[t].job] = RaisedAt(t, cause)]

\* (mutant) the exception is not caught: the task dies where it is
Raise_uncaught(t, cause) ==
    /\ task' = [task EXCEPT ![t] = NoTask]
    /\ raised' = [raised EXCEPT ![task[t].job] = RaisedAt(t, cause)]

\* an exception leaves process_job for the except clause of process_queue
Raise(t, cause) ==
    /\ task' = [task EXCEPT ![t].pc = "except", ![t].err = cause]
    /\ raised' = [raised EXCEPT ![task[t].job] = RaisedAt(t, cause)]

\* (mutant) the guard returns for every task
AlreadyProcessing_always == TRUE

\* (mutant) the guard never sees the flag
AlreadyProcessing_never == FALSE

\* if queue_state["processing"]: return
AlreadyProcessing == processing

\* process_queue, up to the try: the guard, then the flag is set
process_queue_start(t) ==
    /\ LoopFree
    /\ n_scheduled > 0
    /\ FreeSlot(t)
    /\ n_scheduled' = n_scheduled - 1
    /\ IF AlreadyProcessing
       THEN UNCHANGED << processing, task >>
       ELSE /\ processing' = TRUE
            /\ task' = [task EXCEPT ![t].pc = "loop"]
    /\ UNCHANGED << jobs, current_job, sse_clients, job, n_submitted, client_queue,
                    start_order, removed, invoked, emitted, raised, refused, first_event >>
    /\ UNCHANGED stores
    /\ UNCHANGED planner_vars

\* (mutant) the job taken stays in the deque
PopLeft_peek(pending) == [taken |-> Head(pending), rest |-> pending]

\* (mutant) deque.pop(): the newest job is taken
PopLeft_right(pending) ==
    [taken |-> pending[Len(pending)], rest |-> SubSeq(pending, 1, Len(pending) - 1)]

\* deque.popleft(): the job taken and the jobs left
PopLeft(pending) == [taken |-> Head(pending), rest |-> Tail(pending)]

\* the head of the while loop: the next job becomes current_job, or the
\* loop ends and `finally` clears the flag
process_queue_loop(t) ==
    /\ task[t].pc = "loop"
    /\ IF jobs # <<>>
       THEN LET p == PopLeft(jobs)
            IN /\ jobs' = p.rest
               /\ current_job' = p.taken
               /\ client_queue' = broadcast_queue_update(client_queue, p.taken, p.rest, job)
               /\ start_order' = Append(start_order, p.taken)
               /\ task' = [task EXCEPT ![t].pc = "process_job", ![t].job = p.taken]
               /\ UNCHANGED processing
       ELSE /\ processing' = FALSE
            /\ task' = [task EXCEPT ![t] = NoTask]
            /\ UNCHANGED << jobs, current_job, client_queue, start_order >>
    /\ UNCHANGED << sse_clients, job, n_submitted, removed, invoked, emitted, raised,
                    refused >>
    /\ UNCHANGED stores
    /\ UNCHANGED idle_vars

\* process_job up to the chunk loop: page count, chunk plan, first progress
\* event, output directory
process_job_begin(t) ==
    /\ task[t].pc = "process_job"
    /\ LET id == task[t].job
           chunks == calculate_chunks(job[id].page_count)
           jb == Progress([job EXCEPT ![id].total_chunks = Len(chunks),
                                      ![id].current_chunk = 0], id, 5, Unset)
       IN \/ \* get_pdf_info raises
             /\ Raise(t, "pdf_info")
             /\ UNCHANGED << job, client_queue, output_dirs >>
          \/ \* mkdir raises
             /\ job' = jb
             /\ client_queue' = broadcast_queue_update(client_queue, current_job, jobs, jb)
             /\ Raise(t, "mkdir")
             /\ UNCHANGED output_dirs
          \/ /\ job' = jb
             /\ client_queue' = broadcast_queue_update(client_queue, current_job, jobs, jb)
             /\ output_dirs' = output_dirs \cup {id}
             /\ task' = [task EXCEPT ![t].pc = IF chunks # <<>> THEN "chunk_start"
                                                                 ELSE "merge",
                                     ![t].chunks = chunks,
                                     ![t].chunk_idx = 0,
                                     ![t].chunk_results = <<>>]
             /\ UNCHANGED raised
    /\ UNCHANGED invoked
    /\ UNCHANGED << uploads, queue_table, history, outputs, clock, history_writes >>
    /\ UNCHANGED loop_vars
    /\ UNCHANGED idle_vars

\* int((chunk_idx / total_chunks) * 80) + 10
ChunkPercent(chunk_idx, total_chunks) == ((chunk_idx * 80) \div total_chunks) + 10

\* (mutant) the converter of the chunk is kept
Cleanup_skipped(frame) == frame

\* del converter ... gc.collect(), torch.cuda.empty_cache(): the frame of
\* process_job after the cleanup that follows a chunk (released counts the
\* cleanups of the job)
Cleanup(frame) == [frame EXCEPT !.converter = None, !.released = @ + 1]

\* the body of the for loop over the chunks, up to the await of
\* asyncio.to_thread(converter, ...)
process_job_chunk(t) ==
    /\ task[t].pc = "chunk_start"
    /\ LET id == task[t].job
           idx == task[t].chunk_idx
           total == Len(task[t].chunks)
           page_range == task[t].chunks[idx + 1]
           jb1 == [job EXCEPT ![id].current_chunk = idx + 1]
           jb == Progress(jb1, id, ChunkPercent(idx, total), idx + 1)
       IN IF page_range = <<>>
          THEN \* page_range[0]: IndexError
               /\ job' = jb1
               /\ Raise(t, "index")
               /\ UNCHANGED << client_queue, invoked >>
          ELSE /\ job' = jb
               /\ client_queue' = broadcast_queue_update(client_queue, current_job, jobs, jb)
               /\ invoked' = invoked \cup { <<id, idx + 1>> }
               /\ task' = [task EXCEPT ![t].pc = "converting",
                                        ![t].converter = idx + 1]
               /\ UNCHANGED raised
    /\ UNCHANGED stores
    /\ UNCHANGED loop_vars
    /\ UNCHANGED idle_vars

\* the converter thread ends and process_job resumes: the exception is
\* raised, or the chunk's result is kept and its end is reported
process_job_converted(t) ==
    /\ LoopFree
    /\ task[t].pc = "converting"
    /\ LET id == task[t].job
           idx == task[t].chunk_idx
           total == Len(task[t].chunks)
           page_range == task[t].chunks[idx + 1]
           jb == Progress(job, id, ChunkPercent(idx + 1, total), Unset)
       IN \/ /\ Raise(t, "convert")
             /\ UNCHANGED << job, client_queue >>
          \/ /\ job' = jb
             /\ client_queue' = broadcast_queue_update(client_queue, current_job, jobs, jb)
             /\ task' = [task EXCEPT ![t] =
                            Cleanup([@ EXCEPT !.pc = IF idx + 1 < total THEN "chunk_start"
                                                                       ELSE "merge",
                                              !.chunk_idx = idx + 1,
                                              !.chunk_results =
                                                  Append(@, Rendered(page_range,
                                                                     job[id].image_pages))])]
             /\ UNCHANGED raised
    /\ UNCHANGED invoked
    /\ UNCHANGED stores
    /\ UNCHANGED loop_vars
    /\ UNCHANGED idle_vars

\* "Merging chunks..." and merge_chunk_results
process_job_merge(t) ==
    /\ task[t].pc = "merge"
    /\ LET id == task[t].job
           jb == Progress(job, id, 90, Unset)
       IN /\ job' = jb
          /\ client_queue' = broadcast_queue_update(client_queue, current_job, jobs, jb)
          /\ \/ Raise(t, "merge")
             \/ /\ task' = [task EXCEPT ![t].pc = "save_markdown",
                                        ![t].merged = merge_chunk_results(task[t].chunk_results),
                                        ![t].chunk_results = <<>>,
                                        ![t].has_markdown = FALSE,
                                        ![t].has_json = FALSE,
                                        ![t].has_images = FALSE]
                /\ UNCHANGED raised
    /\ UNCHANGED invoked
    /\ UNCHANGED stores
    /\ UNCHANGED loop_vars
    /\ UNCHANGED idle_vars

\* (mutant) the output is written whatever its flag says
SaveOutput_always(t, pc_next, enabled, percent, kind, cause) ==
    LET id == task[t].job
        jb == Progress(job, id, percent, Unset)
    IN IF TRUE
       THEN /\ job' = jb
            /\ client_queue' = broadcast_queue_update(client_queue, current_job, jobs, jb)
            /\ \/ /\ Raise(t, cause)
                  /\ UNCHANGED outputs
               \/ /\ outputs' = [outputs EXCEPT ![id] = @ \cup {kind}]
                  /\ task' = [task EXCEPT ![t].pc = pc_next,
                                          ![t].has_markdown = @ \/ kind = "markdown",
                                          ![t].has_json = @ \/ kind = "json",
                                          ![t].has_images = @ \/ kind = "images"]
                  /\ UNCHANGED raised
       ELSE /\ task' = [task EXCEPT ![t].pc = pc_next]
            /\ UNCHANGED << job, client_queue, outputs, raised >>

\* one of the three output steps: skipped when its condition is false, else
\* the progress event and the write, which may raise
SaveOutput(t, pc_next, enabled, percent, kind, cause) ==
    LET id == task[t].job
        jb == Progress(job, id, percent, Unset)
    IN IF enabled
       THEN /\ job' = jb
            /\ client_queue' = broadcast_queue_update(client_queue, current_job, jobs, jb)
            /\ \/ /\ Raise(t, cause)
                  /\ UNCHANGED outputs
               \/ /\ outputs' = [outputs EXCEPT ![id] = @ \cup {kind}]
                  /\ task' = [task EXCEPT ![t].pc = pc_next,
                                          ![t].has_markdown = @ \/ kind = "markdown",
                                          ![t].has_json = @ \/ kind = "json",
                                          ![t].has_images = @ \/ kind = "images"]
                  /\ UNCHANGED raised
       ELSE /\ task' = [task EXCEPT ![t].pc = pc_next]
            /\ UNCHANGED << job, client_queue, outputs, raised >>

\* if job["output_markdown"]: ...
process_job_save_markdown(t) ==
    /\ task[t].pc = "save_markdown"
    /\ SaveOutput(t, "save_json", job[task[t].job].output_markdown, 92, "markdown", "write_md")
    /\ UNCHANGED invoked
    /\ UNCHANGED << uploads, queue_table, history, output_dirs, clock, history_writes >>
    /\ UNCHANGED loop_vars
    /\ UNCHANGED idle_vars

\* if job["output_json"]: ...
process_job_save_json(t) ==
    /\ task[t].pc = "save_json"
    /\ SaveOutput(t, "save_images", job[task[t].job].output_json, 95, "json", "write_json")
    /\ UNCHANGED invoked
    /\ UNCHANGED << uploads, queue_table, history, output_dirs, clock, history_writes >>
    /\ UNCHANGED loop_vars
    /\ UNCHANGED idle_vars

\* if job["output_images"] and merged_images: ...
process_job_save_images(t) ==
    /\ task[t].pc = "save_images"
    /\ SaveOutput(t, "finish",
                  job[task[t].job].output_images /\ DOMAIN task[t].merged.images # {},
                  97, "images", "write_images")
    /\ UNCHANGED invoked
    /\ UNCHANGED << uploads, queue_table, history, output_dirs, clock, history_writes >>
    /\ UNCHANGED loop_vars
    /\ UNCHANGED idle_vars

\* "Complete!" at 100 and save_job_to_history(job, "complete", ...)
process_job_finish(t) ==
    /\ task[t].pc = "finish"
    /\ LET id == task[t].job
           jb == Progress(job, id, 100, Unset)
       IN /\ job' = jb
          /\ client_queue' = broadcast_queue_update(client_queue, current_job, jobs, jb)
          /\ history' = save_job_to_history(history, id, "complete", "",
                                            task[t].has_markdown, task[t].has_json,
                                            task[t].has_images)
          /\ clock' = clock + 1
          /\ history_writes' = [history_writes EXCEPT ![id] = @ + 1]
          /\ task' = [task EXCEPT ![t].pc = "unlink", ![t].merged = <<>>]
    /\ UNCHANGED << invoked, raised >>
    /\ UNCHANGED << uploads, queue_table, outputs, output_dirs >>
    /\ UNCHANGED loop_vars
    /\ UNCHANGED idle_vars

\* if filepath.exists(): filepath.unlink(), which may raise
process_job_unlink(t) ==
    /\ task[t].pc = "unlink"
    /\ \/ /\ task[t].job \in uploads
          /\ Raise(t, "unlink")
          /\ UNCHANGED uploads
       \/ /\ uploads' = uploads \ {task[t].job}
          /\ task' = [task EXCEPT ![t].pc = "db_delete"]
          /\ UNCHANGED raised
    /\ UNCHANGED << job, client_queue, invoked >>
    /\ UNCHANGED << queue_table, history, outputs, output_dirs, clock, history_writes >>
    /\ UNCHANGED loop_vars
    /\ UNCHANGED idle_vars

\* DELETE FROM queue WHERE id = ?, which may raise
process_job_db_delete(t) ==
    /\ task[t].pc = "db_delete"
    /\ \/ /\ Raise(t, "db_delete")
          /\ UNCHANGED queue_table
       \/ /\ queue_table' = queue_table \ {task[t].job}
          /\ task' = [task EXCEPT ![t].pc = "job_done"]
          /\ UNCHANGED raised
    /\ UNCHANGED << job, client_queue, invoked >>
    /\ UNCHANGED << uploads, history, outputs, output_dirs, clock, history_writes >>
    /\ UNCHANGED loop_vars
    /\ UNCHANGED idle_vars

\* except Exception as e: save_job_to_history(job, "error", str(e))
process_queue_except(t) ==
    /\ task[t].pc = "except"
    /\ LET id == task[t].job
       IN /\ history' = save_job_to_history(history, id, "error", task[t].err,
                                            FALSE, FALSE, FALSE)
          /\ clock' = clock + 1
          /\ history_writes' = [history_writes EXCEPT ![id] = @ + 1]
          /\ task' = [task EXCEPT ![t] = [NoTask EXCEPT !.pc = "job_done", !.job = id]]
    /\ UNCHANGED << job, client_queue, invoked, raised >>
    /\ UNCHANGED << uploads, queue_table, outputs, output_dirs >>
    /\ UNCHANGED loop_vars
    /\ UNCHANGED idle_vars

\* the end of the loop body: current_job cleared, job_complete put on every
\* client queue, the queue broadcast
process_queue_job_done(t) ==
    /\ task[t].pc = "job_done"
    /\ LET id == task[t].job
           cq == PutAll(client_queue, sse_clients, JobComplete(id))
       IN /\ current_job' = None
          /\ client_queue' = broadcast_queue_update(cq, None, jobs, job)
          /\ emitted' = emitted \cup {id}
          /\ refused' = FALSE
          /\ task' = [task EXCEPT ![t] = [NoTask EXCEPT !.pc = "loop"]]
    /\ UNCHANGED << jobs, sse_clients, processing, job, n_submitted, start_order,
                    removed, invoked, raised >>
    /\ UNCHANGED stores
    /\ UNCHANGED idle_vars

\* ------------------------------------------------------ specifications
Next ==
    \/ \E doc \in Documents, opts \in OutputOptions : add_to_queue(doc, opts)
    \/ \E id \in JobIds : remove_from_queue(id)
    \/ \E t \in TaskIds : process_queue_start(t)
    \/ \E t \in TaskIds : process_queue_loop(t)
    \/ \E t \in TaskIds : process_job_begin(t)
    \/ \E t \in TaskIds : process_job_chunk(t)
    \/ \E t \in TaskIds : process_job_converted(t)
    \/ \E t \in TaskIds : process_job_merge(t)
    \/ \E t \in TaskIds : process_job_save_markdown(t)
    \/ \E t \in TaskIds : process_job_save_json(t)
    \/ \E t \in TaskIds : process_job_save_images(t)
    \/ \E t \in TaskIds : process_job_finish(t)
    \/ \E t \in TaskIds : process_job_unlink(t)
    \/ \E t \in TaskIds : process_job_db_delete(t)
    \/ \E t \in TaskIds : process_queue_except(t)
    \/ \E t \in TaskIds : process_queue_job_done(t)

Spec == Init /\ [][Next]_vars

\* the queue engine with progress observers
NextObs ==
    \/ Next
    \/ \E c \in ClientIds : queue_stream(c)
    \/ \E c \in ClientIds : stream_closed(c)

SpecObs == Init /\ [][NextObs]_vars


\* the scheduling the event loop guarantees: a created task is started, a
\* task that holds the loop runs on to its next await, and (the assumption
\* of the liveness claims) every converter invocation returns or raises
TaskRuns ==
    \E t \in TaskIds :
        \/ process_queue_loop(t) \/ process_job_begin(t) \/ process_job_chunk(t)
        \/ process_job_merge(t) \/ process_job_save_markdown(t)
        \/ process_job_save_json(t) \/ process_job_save_images(t)
        \/ process_job_finish(t) \/ process_job_unlink(t) \/ process_job_db_delete(t)
        \/ process_queue_except(t) \/ process_queue_job_done(t)

Fairness ==
    /\ WF_vars(\E t \in TaskIds : process_queue_start(t))
    /\ WF_vars(TaskRuns)
    /\ WF_vars(\E t \in TaskIds : process_job_converted(t))

SpecFair == Spec /\ Fairness

\* the queue engine seen by an observer that subscribed at startup and
\* stays (FirstObserver: its queue holds every event ever published, in
\* order), and by observers that come and go
FirstObserver == 0
Observers == 1..(MaxClients + 1)

InitStream ==
    /\ InitState
    /\ sse_clients = {FirstObserver}
    /\ client_queue = [c \in {FirstObserver} \cup Observers |-> <<>>]
    /\ first_event = [c \in {FirstObserver} \cup Observers |->
                          IF c = FirstObserver THEN QueueUpdate(None, <<>>, job)
                          ELSE NoEvent]
    /\ page_in = 0
    /\ chunks_out = [done |-> FALSE, chunks |-> <<>>]
    /\ merge_in = <<>>
    /\ merge_out = NoMerge
    /\ PollerOff

NextStream ==
    \/ /\ n_submitted < MaxStreamJobs
       /\ \E doc \in Documents, opts \in OutputOptions : add_to_queue(doc, opts)
    \/ \E id \in JobIds : remove_from_queue(id)
    \/ \E t \in TaskIds : process_queue_start(t)
    \/ \E t \in TaskIds : process_job_converted(t)
    \/ TaskRuns
    \/ \E c \in Observers : queue_stream(c)
    \/ \E c \in Observers : event_generator_start(c)
    \/ \E c \in Observers : stream_closed(c)

SpecStream == InitStream /\ [][NextStream]_vars

\* the result merger on its own, for every sequence of one to
\* MaxChunkResults partial results: texts that are empty, short and longer,
\* image maps that are empty, disjoint and colliding in a name, metadata
\* with and without table_of_contents and page_stats
ChunkResults ==
    { [text |-> << 1 >>, images |-> (10 :> 1),
       metadata |-> [table_of_contents |-> << 1 >>, page_stats |-> << 1 >>]],
      [text |-> << 2, 3 >>, images |-> (10 :> 2) @@ (11 :> 3),
       metadata |-> [page_stats |-> << 2, 3 >>]],
      [text |-> <<>>, images |-> <<>>,
       metadata |-> [table_of_contents |-> << 3 >>]],
      [text |-> << 4 >>, images |-> (12 :> 4),
       metadata |-> [table_of_contents |-> <<>>, page_stats |-> <<>>]] }

InitMerge ==
    /\ InitQueue
    /\ page_in = 0
    /\ chunks_out = [done |-> FALSE, chunks |-> <<>>]
    /\ merge_in \in UNION { [1..n -> ChunkResults] : n \in 1..MaxChunkResults }
    /\ merge_out = NoMerge
    /\ PollerOff

MergeResults ==
    /\ ~merge_out.done
    /\ LET merged == merge_chunk_results(merge_in)
       IN merge_out' = [done |-> TRUE, text |-> merged.text, images |-> merged.images,
                        metadata |-> merged.metadata]
    /\ UNCHANGED << page_in, chunks_out, merge_in, poller_vars >>
    /\ UNCHANGED queue_vars

SpecMerge == InitMerge /\ [][MergeResults]_vars

\* the chunk planner on its own, for every page count up to MaxPageCount
InitChunks ==
    /\ InitQueue
    /\ page_in \in 0..MaxPageCount
    /\ chunks_out = [done |-> FALSE, chunks |-> <<>>]
    /\ merge_in = <<>>
    /\ merge_out = NoMerge
    /\ PollerOff

PlanChunks ==
    /\ ~chunks_out.done
    /\ chunks_out' = [done |-> TRUE, chunks |-> calculate_chunks(page_in)]
    /\ UNCHANGED << page_in, merge_in, merge_out, poller_vars >>
    /\ UNCHANGED queue_vars

SpecChunks == InitChunks /\ [][PlanChunks]_vars

\* the poller on its own: files appear in the upload folder, and polls run
\* one after the other; the enqueue callback is the caller's
InitPoll ==
    /\ InitQueue
    /\ page_in = 0
    /\ chunks_out = [done |-> FALSE, chunks |-> <<>>]
    /\ merge_in = <<>>
    /\ merge_out = NoMerge
    /\ drive_folder \in [DriveFileIds -> { Absent } \cup MimeTypes]
    /\ gdrive_processed = {}
    /\ poll = NoPoll
    /\ n_polls = 0
    /\ poll_log = <<>>
    /\ completions = {}

poller_rest == << page_in, chunks_out, merge_in, merge_out, completions >>

\* a user puts a file into the upload folder
drive_upload(f, mime) ==
    /\ drive_folder[f] = Absent
    /\ drive_folder' = [drive_folder EXCEPT ![f] = mime]
    /\ UNCHANGED << gdrive_processed, poll, n_polls, poll_log >>
    /\ UNCHANGED poller_rest
    /\ UNCHANGED queue_vars

\* poll_and_queue up to its loop: new_files = self.list_new_files(), job_ids = []
poll_and_queue_begin ==
    /\ poll.pc = "idle"
    /\ n_polls < MaxPolls
    /\ n_polls' = n_polls + 1
    /\ LET new_files == list_new_files(drive_folder, gdrive_processed)
       IN poll' = [pc |-> "files", new_files |-> new_files, job_ids |-> <<>>,
                   listed |-> new_files]
    /\ UNCHANGED << drive_folder, gdrive_processed, poll_log >>
    /\ UNCHANGED poller_rest
    /\ UNCHANGED queue_vars

\* one iteration of the loop of poll_and_queue: download, enqueue, record,
\* append the job id; an exception of any step ends the iteration
poll_and_queue_file ==
    /\ poll.pc = "files"
    /\ poll.new_files # <<>>
    /\ LET file_id == Head(poll.new_files)
       IN \E step \in { PollSteps[i] : i \in 1..Len(PollSteps) } :
           LET job_id == IF Completed(step, "enqueue")
                         THEN EnqueueReturns(poll_log) ELSE None
           IN /\ poll_log' = Append(poll_log, [poll |-> n_polls, file |-> file_id,
                                               step |-> step, job_id |-> job_id])
              /\ gdrive_processed' = IF Completed(step, "record")
                                     THEN _mark_file_processed(gdrive_processed,
                                                               file_id, job_id)
                                     ELSE gdrive_processed
              /\ poll' = [poll EXCEPT !.new_files = Tail(@),
                                      !.job_ids = IF Completed(step, "record")
                                                  THEN Append(@, job_id) ELSE @]
    /\ UNCHANGED << drive_folder, n_polls >>
    /\ UNCHANGED poller_rest
    /\ UNCHANGED queue_vars

\* return job_ids
poll_and_queue_return ==
    /\ poll.pc = "files"
    /\ poll.new_files = <<>>
    /\ poll' = [poll EXCEPT !.pc = "idle"]
    /\ UNCHANGED << drive_folder, gdrive_processed, n_polls, poll_log >>
    /\ UNCHANGED poller_rest
    /\ UNCHANGED queue_vars

\* SELECT drive_file_id FROM gdrive_processed WHERE job_id = ?
_get_job_drive_file_id(table, job_id) ==
    IF \E row \in table : row.job_id = job_id
    THEN (CHOOSE row \in table : row.job_id = job_id).drive_file_id
    ELSE None

\* on_job_complete(job_id, filename, success), on its non-raising path: for
\* a job that came from Drive the source file leaves the upload folder
\* (move_to_done).  No statement of server_ui.py calls it, process_queue
\* included, so it is a step of no next-state relation below.
on_job_complete(job_id, success) ==
    /\ completions' = completions \cup { << job_id, success >> }
    /\ LET drive_file_id == _get_job_drive_file_id(gdrive_processed, job_id)
       IN drive_folder' = IF drive_file_id = None THEN drive_folder
                          ELSE [drive_folder EXCEPT ![drive_file_id] = Absent]
    /\ UNCHANGED << gdrive_processed, poll, n_polls, poll_log >>
    /\ UNCHANGED << page_in, chunks_out, merge_in, merge_out >>
    /\ UNCHANGED queue_vars

NextPoll ==
    \/ \E f \in DriveFileIds, mime \in MimeTypes : drive_upload(f, mime)
    \/ poll_and_queue_begin
    \/ poll_and_queue_file
    \/ poll_and_queue_return

SpecPoll == InitPoll /\ [][NextPoll]_vars

\* ------------------------------------------------------------- claims
Started == { start_order[i] : i \in DOMAIN start_order }
Pending == { jobs[i] : i \in DOMAIN jobs }

\* the tasks past the guard of process_queue, and the jobs they hold
ActiveTasks == { t \in TaskIds : task[t].pc # "none" }
HeldJobs == { task[t].job : t \in { u \in TaskIds : task[u].job # None } }
InFlight == { t \in TaskIds : task[t].pc = "converting" }

\* C1: at every instant at most one process_queue loop is past its guard,
\* at most one job is being processed (it is current_job) and at most one
\* converter invocation is in flight.
C1_OneAtATime ==
    /\ Cardinality(ActiveTasks) <= 1
    /\ Cardinality(HeldJobs) <= 1
    /\ \A j \in HeldJobs : current_job = j
    /\ Cardinality(InFlight) <= 1
    /\ (ActiveTasks # {}) => processing

\* a conversion is in flight while another job waits and a second
\* process_queue task is about to start
C1_Witness ==
    /\ InFlight # {}
    /\ jobs # <<>>
    /\ n_scheduled > 0


\* the ids of the job_complete events of a stream of messages, in order
RECURSIVE CompleteIds(_)
CompleteIds(q) ==
    IF q = <<>> THEN <<>>
    ELSE (IF Head(q).type = "job_complete" THEN << Head(q).job_id >> ELSE <<>>)
         \o CompleteIds(Tail(q))

Increasing(seq) == \A i, k \in DOMAIN seq : i < k => seq[i] < seq[k]

\* C2: jobs start and complete in submission order (ids are submission
\* numbers): the started jobs are older than every pending one and started
\* in order, every observer's stream carries the job_complete events in
\* submission order, and a job's job_complete is sent only when every
\* earlier job was cancelled or has had its own sent.
C2_FIFO ==
    /\ Increasing(start_order)
    /\ \A s \in Started : \A j \in Pending : s < j
    /\ \A c \in ClientIds : Increasing(CompleteIds(client_queue[c]))
    /\ \A c \in ClientIds : \A i \in DOMAIN CompleteIds(client_queue[c]) :
           CompleteIds(client_queue[c])[i] \in emitted
    /\ \A j \in emitted : \A i \in 1..(j - 1) : i \in removed \/ i \in emitted

\* an observer has received job_complete for job 1, which failed, and then
\* for job 2, which succeeded
C2_Witness ==
    \E c \in sse_clients :
        /\ CompleteIds(client_queue[c]) = << 1, 2 >>
        /\ history[1].status = "error"
        /\ history[2].status = "complete"


C4_CancelledNeverRuns ==
    \A j \in removed :
        /\ j \notin Started
        /\ current_job # j
        /\ j \notin HeldJobs
        /\ j \notin Pending
        /\ history[j].status = "none"
        /\ history_writes[j] = 0
        /\ j \notin emitted
        /\ j \notin uploads
        /\ j \notin queue_table

\* job 2 was cancelled while job 1 was being converted, and job 1 has since
\* reached its job_complete event
C4_Witness ==
    /\ removed = {2}
    /\ 1 \in emitted
    /\ ~processing

\* C5: when the conversion of chunk k of a job has failed, the chunks
\* invoked for that job are exactly 1..k, nothing of the job was merged
\* (the merge step at 90 percent was never reached) or written, and the only
\* record the store ever holds for the job is an error record, which it
\* holds by the time job_complete is emitted.
C5_ChunkFailure ==
    \A j \in JobIds :
        raised[j].cause = "convert" =>
            /\ \A p \in invoked : p[1] = j => p[2] <= raised[j].chunk
            /\ \A k \in 1..raised[j].chunk : << j, k >> \in invoked
            /\ outputs[j] = {}
            /\ job[j].percent < 90
            /\ \A t \in TaskIds :
                   task[t].job = j => /\ task[t].pc \in {"except", "job_done"}
                                      /\ task[t].merged = <<>>
            /\ history[j].status \in {"none", "error"}
            /\ j \in emitted => history[j].status = "error"

\* the 12-page job, three chunks, failed in its second chunk and has been
\* finalised
C5_Witness ==
    \E j \in emitted :
        /\ job[j].page_count = 12
        /\ job[j].total_chunks = 3
        /\ raised[j] = [cause |-> "convert", chunk |-> 2]
        /\ history[j].status = "error"


C7_CleanupOnBothPaths ==
    \A j \in emitted : j \notin uploads /\ j \notin queue_table

\* C8: the terminal record of a job is final: once the store holds a
\* complete or error record for a job, no later step changes its status or
\* its completed_at.
C8_TerminalFinal ==
    [][\A j \in JobIds :
           history[j].status \in Terminal =>
               /\ history'[j].status = history[j].status
               /\ history'[j].completed_at = history[j].completed_at]_vars

\* C9: for every page count the ranges of calculate_chunks are consecutive
\* (each begins one past the end of the one before, the first at 0), their
\* concatenation is 0..page_count-1 in ascending order, each has at most
\* MAX_PAGES_PER_CHUNK pages and every range but the last exactly that many,
\* and up to MAX_PAGES_PER_CHUNK pages make exactly one chunk.
C9_ChunksPartition ==
    chunks_out.done =>
        LET chunks == chunks_out.chunks
            n == Len(chunks)
        IN /\ Flatten(chunks) = Range(0, page_in)
           /\ \A i \in 1..n : Len(chunks[i]) <= MAX_PAGES_PER_CHUNK
           /\ \A i \in 1..(n - 1) : Len(chunks[i]) = MAX_PAGES_PER_CHUNK
           /\ \A i \in 1..n : \A k \in 1..(Len(chunks[i]) - 1) :
                  chunks[i][k + 1] = chunks[i][k] + 1
           /\ \A i \in 1..(n - 1) :
                  chunks[i + 1] # <<>> /\ chunks[i + 1][1] = chunks[i][Len(chunks[i])] + 1
           /\ (n > 0 /\ chunks[1] # <<>>) => chunks[1][1] = 0
           /\ page_in <= MAX_PAGES_PER_CHUNK => n = 1
           /\ page_in > MAX_PAGES_PER_CHUNK =>
                  n = (page_in + MAX_PAGES_PER_CHUNK - 1) \div MAX_PAGES_PER_CHUNK

\* twelve pages were planned as the three ranges 0..4, 5..9 and 10..11
C9_Witness ==
    /\ chunks_out.done
    /\ page_in = 12
    /\ chunks_out.chunks = << <<0, 1, 2, 3, 4>>, <<5, 6, 7, 8, 9>>, <<10, 11>> >>

\* C10: for a document of zero pages calculate_chunks returns the empty
\* sequence, and the job planned from it has zero chunks and reaches
\* complete, or is rejected before it is processed.
C10_EmptyPlan ==
    /\ (chunks_out.done /\ page_in = 0) => chunks_out.chunks = <<>>
    /\ \A j \in Started :
           (job[j].page_count = 0 /\ job[j].total_chunks # Unset) =>
               /\ job[j].total_chunks = 0
               /\ history[j].status # "error"


\* a queue_update in which job j is the current job
IsCurrent(m, j) ==
    /\ m.type = "queue_update"
    /\ m.queue # <<>>
    /\ m.queue[1].id = j
    /\ m.queue[1].status = "processing"

\* the events of a stream that concern job j: the percent values shown for
\* it as current job, and its job_complete
RECURSIVE EventsFor(_, _)
EventsFor(q, j) ==
    IF q = <<>> THEN <<>>
    ELSE (IF IsCurrent(Head(q), j)
          THEN << [kind |-> "percent", value |-> Head(q).queue[1].percent] >>
          ELSE IF Head(q).type = "job_complete" /\ Head(q).job_id = j
          THEN << [kind |-> "job_complete", value |-> j] >>
          ELSE <<>>)
         \o EventsFor(Tail(q), j)

\* the channel holds the broadcast made when j became current_job (the only
\* one that shows it at 0 percent): its observer was registered before j
\* started and has stayed
SawStart(c, j) ==
    /\ c \in sse_clients
    /\ \E i \in DOMAIN client_queue[c] :
           IsCurrent(client_queue[c][i], j) /\ client_queue[c][i].queue[1].percent = 0

\* percent values, the last of them 100, and then job_complete
EndsComplete(ev) ==
    /\ Len(ev) >= 2
    /\ ev[Len(ev)].kind = "job_complete"
    /\ ev[Len(ev) - 1] = [kind |-> "percent", value |-> 100]
    /\ \A i \in 1..(Len(ev) - 1) : ev[i].kind = "percent"

\* everything an observer's event_generator yields once it has started: the
\* snapshot, then the messages of its queue
Received(c) ==
    IF first_event[c] = NoEvent THEN <<>> ELSE << first_event[c] >> \o client_queue[c]

\* the observer's snapshot was yielded before j became current_job
SubscribedBefore(c, j) ==
    /\ SawStart(c, j)
    /\ first_event[c] # NoEvent
    /\ ~IsCurrent(first_event[c], j)

\* C11: for a job that completed successfully and whose job_complete was
\* sent, any two observers registered since before the job started (and
\* whose streams have begun) receive the same sequence of events for it:
\* percent values, the last of them 100, and then job_complete.
C11_SameSequence ==
    \A j \in emitted :
        history[j].status = "complete" =>
            \A c, d \in sse_clients :
                (/\ SawStart(c, j) /\ first_event[c] # NoEvent
                 /\ SawStart(d, j) /\ first_event[d] # NoEvent) =>
                    /\ EventsFor(Received(c), j) = EventsFor(Received(d), j)
                    /\ EndsComplete(EventsFor(Received(c), j))

\* what does hold for such a job: the channels of any two observers
\* registered since before the job started carry the same events for it,
\* percent values ending in 100 and then job_complete, and so does all they
\* receive, snapshot included, when the snapshot was yielded before the job
\* started.
C11_SameEvents ==
    \A j \in emitted :
        history[j].status = "complete" =>
            /\ \A c, d \in sse_clients :
                   (SawStart(c, j) /\ SawStart(d, j)) =>
                       /\ EventsFor(client_queue[c], j) = EventsFor(client_queue[d], j)
                       /\ EndsComplete(EventsFor(client_queue[c], j))
            /\ \A c, d \in sse_clients :
                   (SubscribedBefore(c, j) /\ SubscribedBefore(d, j)) =>
                       /\ EventsFor(Received(c), j) = EventsFor(Received(d), j)
                       /\ EndsComplete(EventsFor(Received(c), j))

\* two observers that came after startup were both subscribed before the
\* 12-page job started and have its job_complete
C11_SameEvents_Reached ==
    /\ 1 \in emitted
    /\ history[1].status = "complete"
    /\ job[1].page_count = 12
    /\ \A c \in Observers : SubscribedBefore(c, 1)
    /\ Cardinality(Observers) >= 2


\* the ids listed by the history query
HistoryIds == { get_history(history)[i].id : i \in DOMAIN get_history(history) }

\* C12: the store agrees with the queue in every state: a pending job has a
\* record with status queued, the current job one with status processing, a
\* job whose job_complete was sent one with status complete or error, and the
\* history query lists the pending and the current job.
C12_StoreAgrees ==
    /\ \A j \in Pending : history[j].status = "queued" /\ j \in HistoryIds
    /\ current_job # None =>
           history[current_job].status = "processing" /\ current_job \in HistoryIds
    /\ \A j \in emitted : history[j].status \in Terminal /\ j \in HistoryIds


\* C13: for a job recorded as complete, the download of an artifact kind
\* whose output flag was false at submission answers not-found.
C13_DisabledNotFound ==
    \A j \in JobIds :
        history[j].status = "complete" =>
            /\ ~job[j].output_markdown => download_markdown(j) = NotFound
            /\ ~job[j].output_json => download_json(j) = NotFound
            /\ ~job[j].output_images => download_images(j) = NotFound

\* one job completed with markdown and images but without json, the other
\* with json alone: each download of an enabled kind answers, each of a
\* disabled kind is not found
C13_Witness ==
    \E j, k \in emitted :
        /\ history[j].status = "complete" /\ history[k].status = "complete"
        /\ job[j].output_markdown /\ ~job[j].output_json /\ job[j].output_images
        /\ download_markdown(j) = Ok /\ download_json(j) = NotFound
        /\ download_images(j) = Ok
        /\ ~job[k].output_markdown /\ job[k].output_json /\ ~job[k].output_images
        /\ download_markdown(k) = NotFound /\ download_json(k) = Ok
        /\ download_images(k) = NotFound


\* C14: whenever a download request can be served (no process_queue task
\* holds the event loop), every download for a job that is not recorded as
\* complete (pending, being processed, cancelled, or finalised as error)
\* answers not-found.
C14_IncompleteNotFound ==
    LoopFree =>
        \A j \in JobIds :
            history[j].status # "complete" =>
                /\ download_markdown(j) = NotFound
                /\ download_json(j) = NotFound
                /\ download_images(j) = NotFound


\* C15: merging exactly one partial result returns its text, its images and
\* its metadata unchanged: no separator in the text, no key added to the
\* metadata.
C15_MergeIdentity ==
    (merge_out.done /\ Len(merge_in) = 1) =>
        /\ merge_out.text = merge_in[1].text
        /\ merge_out.images = merge_in[1].images
        /\ merge_out.metadata = merge_in[1].metadata
        /\ \A i \in DOMAIN merge_out.text : << merge_out.text[i] >> # separator

\* the single result without table_of_contents was merged
C15_Witness ==
    /\ merge_out.done
    /\ Len(merge_in) = 1
    /\ merge_in[1].text = << 2, 3 >>
    /\ merge_out.text = << 2, 3 >>
    /\ DOMAIN merge_out.metadata = {"page_stats"}

\* the same in the queue: what a task holds after the merge of a document of
\* one chunk is what its only converter invocation returned
C15_SingleChunkWritten ==
    \A t \in TaskIds :
        (task[t].pc \in {"save_markdown", "save_json", "save_images", "finish"}
            /\ Len(task[t].chunks) = 1) =>
            LET r == Rendered(task[t].chunks[1], job[task[t].job].image_pages)
            IN /\ task[t].merged.text = r.text
               /\ task[t].merged.images = r.images
               /\ task[t].merged.metadata = r.metadata

\* the texts of results 1..k joined, from the left
JoinedUpTo(results, k) ==
    LET J[i \in 1..k] == IF i = 1 THEN results[1].text
                         ELSE J[i - 1] \o separator \o results[i].text
    IN J[k]

\* the page_stats of a result, if it has any
StatsOf(r) == IF "page_stats" \in DOMAIN r.metadata THEN r.metadata.page_stats ELSE <<>>

\* C16: merging two or more partial results gives the texts in chunk order
\* with the separator between consecutive ones and nowhere else, the union of
\* the image maps in which a name maps to the image of the last chunk that
\* has it, and metadata with the first chunk's table_of_contents, the number
\* of chunks and the page_stats of all chunks concatenated in chunk order.
C16_MergeMany ==
    (merge_out.done /\ Len(merge_in) >= 2) =>
        LET n == Len(merge_in)
        IN /\ merge_out.text = JoinedUpTo(merge_in, n)
           /\ DOMAIN merge_out.images = UNION { DOMAIN merge_in[i].images : i \in 1..n }
           /\ \A name \in DOMAIN merge_out.images :
                  \E i \in 1..n :
                      /\ name \in DOMAIN merge_in[i].images
                      /\ \A k \in (i + 1)..n : name \notin DOMAIN merge_in[k].images
                      /\ merge_out.images[name] = merge_in[i].images[name]
           /\ merge_out.metadata.table_of_contents =
                  (IF "table_of_contents" \in DOMAIN merge_in[1].metadata
                   THEN merge_in[1].metadata.table_of_contents ELSE <<>>)
           /\ merge_out.metadata.chunk_count = n
           /\ merge_out.metadata.page_stats =
                  Flatten([i \in 1..n |-> StatsOf(merge_in[i])])

\* two results that both carry image 10 were merged: the second one's image
\* is kept, and the separator stands between the two texts
C16_Witness ==
    /\ merge_out.done
    /\ Len(merge_in) = 2
    /\ merge_in[1].images = (10 :> 1)
    /\ merge_in[2].images = (10 :> 2) @@ (11 :> 3)
    /\ merge_out.images = (10 :> 2) @@ (11 :> 3)
    /\ merge_out.text = << 1, -1, 2, 3 >>


\* what queue inspection returns now
QueueNow == get_queue_data(current_job, jobs, job)

\* the submitted jobs that were neither started nor cancelled
Waiting == { j \in 1..n_submitted : j \notin Started /\ j \notin removed }

\* C17: queue inspection lists the current job first, with status
\* processing, if there is one, and after it exactly the jobs that were
\* submitted and neither started nor cancelled, with status queued, in
\* submission order; no job is listed twice.
C17_QueueListing ==
    LET q == QueueNow
        first == IF current_job # None THEN 1 ELSE 0
    IN /\ Len(q) = first + Cardinality(Waiting)
       /\ current_job # None => q[1].id = current_job /\ q[1].status = "processing"
       /\ \A i \in (first + 1)..Len(q) : q[i].status = "queued" /\ q[i].id \in Waiting
       /\ \A i, k \in (first + 1)..Len(q) : i < k => q[i].id < q[k].id
       /\ \A i, k \in DOMAIN q : i # k => q[i].id # q[k].id

\* job 1 is being converted and job 2 waits: the listing is job 1,
\* processing, then job 2, queued
C17_Witness ==
    /\ InFlight # {}
    /\ Len(QueueNow) = 2
    /\ QueueNow[1].id = 1 /\ QueueNow[1].status = "processing"
    /\ QueueNow[2].id = 2 /\ QueueNow[2].status = "queued"


\* q is the end of log
IsSuffix(q, log) ==
    /\ Len(q) <= Len(log)
    /\ q = SubSeq(log, Len(log) - Len(q) + 1, Len(log))

\* a snapshot of the whole queue as it is in this state: the current job
\* with its progress, then every pending job
IsSnapshotNow(m) ==
    LET first == IF current_job # None THEN 1 ELSE 0
    IN /\ m.type = "queue_update"
       /\ Len(m.queue) = first + Len(jobs)
       /\ current_job # None =>
              /\ m.queue[1].id = current_job
              /\ m.queue[1].status = "processing"
              /\ m.queue[1].percent = Get(job[current_job].percent, 0)
              /\ m.queue[1].current_chunk = Get(job[current_job].current_chunk, 1)
              /\ m.queue[1].total_chunks = Get(job[current_job].total_chunks, 1)
       /\ \A i \in 1..Len(jobs) :
              m.queue[first + i].id = jobs[i] /\ m.queue[first + i].status = "queued"

\* C18: the first event an observer receives is a queue_update snapshot of
\* the whole queue (current job with its progress, pending jobs) as it is
\* when it is yielded, and from its registration on the observer's channel
\* gets every event published, in publication order: the channel is empty
\* until registration, after it it is the end of the channel of the observer
\* subscribed since startup (which holds every event published), and each
\* step appends the same events to both.
C18_SnapshotThenAll ==
    /\ [](\A c \in Observers :
            /\ c \notin sse_clients => client_queue[c] = <<>> /\ first_event[c] = NoEvent
            /\ IsSuffix(client_queue[c], client_queue[FirstObserver])
            /\ Received(c) # <<>> => Received(c)[1].type = "queue_update")
    /\ [][\A c \in Observers :
            /\ (first_event[c] = NoEvent /\ first_event'[c] # NoEvent) =>
                   /\ IsSnapshotNow(first_event[c])'
                   /\ Received(c)'[1] = first_event'[c]
            /\ (first_event[c] # NoEvent /\ c \in sse_clients') =>
                   first_event'[c] = first_event[c]
            /\ (c \in sse_clients /\ c \in sse_clients') =>
                   /\ Len(client_queue'[c]) - Len(client_queue[c])
                          = Len(client_queue'[FirstObserver]) - Len(client_queue[FirstObserver])
                   /\ SubSeq(client_queue'[c], 1, Len(client_queue[c])) = client_queue[c]
          ]_vars

\* an observer registered while job 1 waited and had its snapshot yielded
\* only after the conversion had begun: the snapshot shows job 1 as current
\* job, the channel holds the older events from the start of the job on, and
\* the job_complete has arrived
C18_Witness ==
    \E c \in Observers :
        /\ c \in sse_clients
        /\ IsCurrent(first_event[c], 1)
        /\ SawStart(c, 1)
        /\ 1 \in emitted
        /\ CompleteIds(client_queue[c]) = << 1 >>


\* every observer of the stream specification
AllObservers == {FirstObserver} \cup Observers

C20_NoPreemption ==
    /\ [][\A id \in JobIds :
            (remove_from_queue(id) /\ ~InQueue(jobs, id)) =>
                /\ UNCHANGED << jobs, current_job, processing, uploads, queue_table,
                                client_queue, sse_clients, removed, job, task, history,
                                outputs, n_scheduled >>
                /\ id = current_job => refused'
          ]_vars
    /\ [](\A t \in TaskIds :
            task[t].job # None =>
                /\ task[t].job \notin removed
                /\ task[t].pc \in {"process_job", "chunk_start", "converting", "merge",
                                   "save_markdown", "save_json", "save_images", "finish",
                                   "unlink"} => task[t].job \in uploads
                /\ task[t].pc \in {"process_job", "chunk_start", "converting", "merge",
                                   "save_markdown", "save_json", "save_images", "finish",
                                   "unlink", "db_delete"} => task[t].job \in queue_table)
    /\ [](refused => current_job # None /\ current_job \notin removed)
    /\ \A j \in JobIds :
           (refused /\ current_job = j) ~>
               (j \in emitted /\ j \notin removed /\ history[j].status \in Terminal)

\* the cancellation of job 1 was refused while it was being converted, and
\* the job went on: its record is complete and its upload is about to be
\* unlinked by process_job
C20_Witness ==
    /\ refused
    /\ current_job = 1
    /\ history[1].status = "complete"
    /\ 1 \in uploads
    /\ \E t \in TaskIds : task[t].job = 1 /\ task[t].pc = "unlink"


\* ---- the poller
\* the iterations of poll p over file f, and those that got to the callback
Handled(p, f) == { i \in 1..Len(poll_log) : poll_log[i].poll = p /\ poll_log[i].file = f }
Calls(p, f) == { i \in Handled(p, f) : Completed(poll_log[i].step, "download") }
AllCalls(f) == UNION { Calls(p, f) : p \in 1..MaxPolls }
Listed(f) == \E i \in 1..Len(poll.listed) : poll.listed[i] = f
Recorded(f) == \E row \in gdrive_processed : row.drive_file_id = f
PollAtEnd == n_polls > 0 /\ poll.new_files = <<>>
AllSucceeded == \A i \in 1..Len(poll_log) : poll_log[i].step = "done"

\* what a poll lists is exactly the PDFs of the upload folder with no row in
\* gdrive_processed, each once, and every iteration is about a PDF of the
\* folder that has no row at that moment
PollsNewFilesOnly ==
    /\ [][poll_and_queue_begin =>
            /\ \A f \in DriveFileIds :
                   (\E i \in 1..Len(poll'.listed) : poll'.listed[i] = f)
                       <=> (drive_folder[f] \in PDF_MIME_TYPES /\ ~Recorded(f))
            /\ \A i, k \in 1..Len(poll'.listed) :
                   i < k => poll'.listed[i] < poll'.listed[k]]_vars
    /\ [][poll_log' # poll_log =>
            /\ Len(poll_log') = Len(poll_log) + 1
            /\ LET e == poll_log'[Len(poll_log')]
               IN /\ e.poll = n_polls
                  /\ Listed(e.file)
                  /\ drive_folder[e.file] \in PDF_MIME_TYPES
                  /\ ~Recorded(e.file)]_vars

\* across polls whose steps all succeed, a file is enqueued once, when the
\* first poll that lists it handles it
OncePerFileAcrossPolls ==
    AllSucceeded =>
        \A f \in DriveFileIds :
            /\ Cardinality(AllCalls(f)) <= 1
            /\ Recorded(f) <=> AllCalls(f) # {}
            /\ (PollAtEnd /\ Listed(f)) => Cardinality(AllCalls(f)) = 1
            /\ (PollAtEnd /\ poll.pc = "idle" /\ drive_folder[f] \in PDF_MIME_TYPES
                    /\ AllCalls(f) = {}) => ~Listed(f)

\* C21 as stated: on each poll the enqueue callback is invoked exactly once
\* for every PDF of the upload folder that is not recorded in
\* gdrive_processed and never for a recorded file, and across polls whose
\* steps all succeed every remote file is enqueued exactly once
C21_EnqueuedOncePerNewFile ==
    /\ PollsNewFilesOnly
    /\ [](PollAtEnd => \A f \in DriveFileIds :
              Cardinality(Calls(n_polls, f)) = (IF Listed(f) THEN 1 ELSE 0))
    /\ []OncePerFileAcrossPolls

\* C21, amended: on each poll every PDF of the upload folder that is not
\* recorded in gdrive_processed is handled exactly once and the enqueue
\* callback is invoked for it exactly once if its download succeeded and not
\* at all if it raised; the callback is never invoked for a recorded file,
\* and across polls whose steps all succeed every remote file is enqueued
\* exactly once
C21_EnqueuedOncePerDownloadedFile ==
    /\ PollsNewFilesOnly
    /\ [](\A p \in 1..MaxPolls, f \in DriveFileIds : Cardinality(Handled(p, f)) <= 1)
    /\ [](PollAtEnd => \A f \in DriveFileIds :
              /\ Cardinality(Handled(n_polls, f)) = (IF Listed(f) THEN 1 ELSE 0)
              /\ \A i \in Handled(n_polls, f) :
                     Cardinality(Calls(n_polls, f))
                         = (IF poll_log[i].step = "download" THEN 0 ELSE 1))
    /\ []OncePerFileAcrossPolls

\* two polls whose steps all succeeded: the first enqueued file 1, the second
\* a file that came later, and file 1, still in the folder, was not enqueued
\* again
C21_Witness ==
    /\ n_polls = 2
    /\ poll.pc = "idle"
    /\ AllSucceeded
    /\ drive_folder[1] \in PDF_MIME_TYPES
    /\ Cardinality(Calls(1, 1)) = 1
    /\ Calls(2, 1) = {}
    /\ \E f \in DriveFileIds \ {1} : Cardinality(Calls(2, f)) = 1

\* C22: after every job reaches a terminal state the completion hook
\* on_job_complete(job_id, filename, success) is invoked for that job, with
\* success true exactly when the job completed successfully.
C22_HookInvoked ==
    /\ [](\A j \in JobIds :
            /\ << j, TRUE >> \in completions => history[j].status = "complete"
            /\ << j, FALSE >> \in completions => history[j].status = "error")
    /\ \A j \in JobIds :
           /\ (j \in emitted /\ history[j].status = "complete")
                  ~> (<< j, TRUE >> \in completions)
           /\ (j \in emitted /\ history[j].status = "error")
                  ~> (<< j, FALSE >> \in completions)

C24_OrderedWithRelease ==
    /\ [][\A t \in TaskIds :
            (task[t].pc # "converting" /\ task'[t].pc = "converting") =>
                LET id == task[t].job
                    k == task'[t].converter
                IN /\ task[t].converter = None
                   /\ task[t].released = k - 1
                   /\ k = task[t].chunk_idx + 1
                   /\ { c \in 1..MaxPageCount : << id, c >> \in invoked } = 1..(k - 1)
                   /\ invoked' = invoked \cup { << id, k >> }
                   /\ task[t].chunks[k] = calculate_chunks(job[id].page_count)[k]]_vars
    /\ [][\A t \in TaskIds :
            (task[t].pc = "converting" /\ task'[t].pc \in {"chunk_start", "merge"}) =>
                /\ task'[t].converter = None
                /\ task'[t].released = task[t].released + 1]_vars
    /\ [](Cardinality(InFlight) <= 1)
    /\ [](\A t \in TaskIds : task[t].pc = "converting" <=>
              (task[t].converter # None /\ task[t].err = ""))

\* the third chunk of the 12-page document is being converted, after two
\* invocations and two releases
C24_Witness ==
    \E t \in TaskIds :
        /\ task[t].pc = "converting"
        /\ task[t].converter = 3
        /\ task[t].released = 2
        /\ { << task[t].job, 1 >>, << task[t].job, 2 >>, << task[t].job, 3 >> } \subseteq invoked

\* C25: while a converter invocation is in flight the event loop is free:
\* a submission, the cancellation of any pending job, the inspection of the
\* queue and a subscription are enabled and take effect in their own step
\* (the job is appended, or removed, the subscriber is registered, observers
\* are told); the task scheduled by such a submission returns at the guard
\* without making a second loop, and the job is taken only after the
\* current job has ended.
C25_HandlersDuringConversion ==
    /\ [](InFlight # {} =>
            /\ LoopFree
            /\ n_submitted < MaxJobs =>
                   \A doc \in Documents, opts \in OutputOptions :
                       ENABLED add_to_queue(doc, opts)
            /\ \A id \in Pending : ENABLED remove_from_queue(id)
            /\ \A c \in ClientIds \ sse_clients : ENABLED queue_stream(c)
            /\ LET listing == get_queue_data(current_job, jobs, job)
               IN /\ Len(listing) = 1 + Len(jobs)
                  /\ listing[1].id = current_job
                  /\ listing[1].status = "processing")
    /\ [][InFlight # {} =>
            /\ n_submitted' # n_submitted =>
                   /\ jobs' = Append(jobs, n_submitted')
                   /\ n_scheduled' = n_scheduled + 1
                   /\ \A c \in sse_clients :
                          /\ Len(client_queue'[c]) = Len(client_queue[c]) + 1
                          /\ LET q == client_queue'[c][Len(client_queue'[c])].queue
                             IN q[Len(q)].id = n_submitted' /\ q[1].id = current_job
            /\ removed' # removed =>
                   /\ \E id \in Pending :
                          /\ removed' = removed \cup {id}
                          /\ jobs' = SelectSeq(jobs, LAMBDA x : x # id)
                          /\ id # current_job
                   /\ \A c \in sse_clients :
                          Len(client_queue'[c]) = Len(client_queue[c]) + 1
            /\ sse_clients' # sse_clients => current_job' = current_job
            /\ n_scheduled' < n_scheduled =>
                   /\ processing' = processing
                   /\ jobs' = jobs
            /\ (n_submitted' # n_submitted \/ removed' # removed
                    \/ sse_clients' # sse_clients \/ n_scheduled' < n_scheduled) =>
                   /\ task' = task
                   /\ current_job' = current_job
                   /\ InFlight' = InFlight]_vars
    /\ [][start_order' # start_order =>
            /\ InFlight = {}
            /\ current_job = None
            /\ jobs # <<>>
            /\ start_order' = Append(start_order, Head(jobs))]_vars

\* job 2 was submitted while chunk 1 of job 1 was being converted: the
\* subscriber got the start of the chunk and then a listing with job 2
\* queued behind job 1, the task of that submission has come and gone, and
\* the conversion is still in flight
C25_Witness ==
    /\ InFlight # {}
    /\ Cardinality(ActiveTasks) = 1
    /\ current_job = 1
    /\ jobs = << 2 >>
    /\ n_scheduled = 0
    /\ \E c \in sse_clients :
           \E i \in 1..(Len(client_queue[c]) - 1) :
               LET before == client_queue[c][i]
                   after == client_queue[c][i + 1]
               IN /\ before.type = "queue_update"
                  /\ Len(before.queue) = 1
                  /\ before.queue[1].percent = 10
                  /\ after.type = "queue_update"
                  /\ Len(after.queue) = 2
                  /\ after.queue[1] = before.queue[1]
                  /\ after.queue[2].id = 2
                  /\ i + 1 = Len(client_queue[c])

\* C26: every record of the job store has an error detail exactly when its
\* status is error, and an outputs-present flag only when its status is
\* complete and that artifact was written; a job whose output writing
\* failed is recorded as error with all three flags false.
C26_RecordInvariants ==
    \A j \in JobIds :
        /\ history[j].status \in Terminal \cup {"none"}
        /\ history[j].status # "none" =>
               /\ history[j].error_message # "" <=> history[j].status = "error"
               /\ history[j].has_markdown =>
                      history[j].status = "complete" /\ "markdown" \in outputs[j]
               /\ history[j].has_json =>
                      history[j].status = "complete" /\ "json" \in outputs[j]
               /\ history[j].has_images =>
                      history[j].status = "complete" /\ "images" \in outputs[j]
        /\ (raised[j].cause # "" /\ j \in emitted) =>
               /\ history[j].status = "error"
               /\ history[j].error_message = raised[j].cause
               /\ ~history[j].has_markdown
               /\ ~history[j].has_json
               /\ ~history[j].has_images

\* the markdown of a job was written, its image write then failed, and its
\* record says error with no flag set
C26_Witness ==
    \E j \in JobIds :
        /\ raised[j].cause = "write_images"
        /\ "markdown" \in outputs[j]
        /\ j \in emitted
        /\ history[j].status = "error"
        /\ ~history[j].has_markdown

\* the listings published for job j as the current job, in order (the queue
\* of the observer subscribed since startup holds every published event)
Published(j) ==
    LET shown == SelectSeq(client_queue[FirstObserver], LAMBDA m : IsCurrent(m, j))
    IN [i \in 1..Len(shown) |-> shown[i].queue[1]]

\* every chunk of job j was converted and every enabled output was written
AllDone(j) ==
    /\ \A k \in 1..Len(calculate_chunks(job[j].page_count)) : << j, k >> \in invoked
    /\ job[j].output_markdown => "markdown" \in outputs[j]
    /\ job[j].output_json => "json" \in outputs[j]
    /\ (job[j].output_images /\ job[j].image_pages # {}) => "images" \in outputs[j]

\* C27: in the listings published for a job while it is processed, percent
\* never decreases and stays within 0..100, current_chunk never decreases
\* and stays within 0..total_chunks, and percent 100 is published only after
\* every chunk was converted and every enabled output was written.
C27_ProgressMonotonic ==
    \A j \in JobIds :
        LET s == Published(j)
        IN \A i \in 1..Len(s) :
               /\ 0 <= s[i].percent /\ s[i].percent <= 100
               /\ 0 <= s[i].current_chunk /\ s[i].current_chunk <= s[i].total_chunks
               /\ i < Len(s) => /\ s[i].percent <= s[i + 1].percent
                                /\ s[i].current_chunk <= s[i + 1].current_chunk
               /\ s[i].percent = 100 => AllDone(j)

\* the same for the listings that follow the first one (those published by
\* update_job_progress), with the values of the chunk loop: the start of
\* chunk k at int((k-1)/total*80)+10, its end at int(k/total*80)+10
C27_ProgressAfterFirstListing ==
    /\ \A j \in JobIds :
           LET s == Published(j)
           IN \A i \in 2..Len(s) :
                  /\ s[i].percent \in {5, 90, 92, 95, 97, 100}
                         \cup { ChunkPercent(k, s[i].total_chunks) : k \in 0..s[i].total_chunks }
                  /\ 0 <= s[i].current_chunk /\ s[i].current_chunk <= s[i].total_chunks
                  /\ i < Len(s) => /\ s[i].percent <= s[i + 1].percent
                                   /\ s[i].current_chunk <= s[i + 1].current_chunk
                                   /\ s[i].total_chunks = s[i + 1].total_chunks
                  /\ s[i].percent = 100 => AllDone(j)
    /\ \A total \in 1..(MaxPageCount \div MAX_PAGES_PER_CHUNK) :
         \A k \in 0..(total - 1) :
           /\ ChunkPercent(0, total) = 10
           /\ ChunkPercent(k, total) <= ChunkPercent(k + 1, total)
           /\ ChunkPercent(total, total) = 90

\* a job with three chunks was processed to the end, and its last listing
\* shows 100 percent at chunk 3 of 3
C27_ProgressAfterFirstListing_Reached ==
    \E j \in JobIds :
        LET s == Published(j)
        IN /\ Len(s) >= 2
           /\ s[Len(s)].percent = 100
           /\ s[Len(s)].current_chunk = 3
           /\ s[Len(s)].total_chunks = 3

\* C28: an observer never receives a queue_update that describes an older
\* queue state than one it has already received: when its generator
\* produces the initial snapshot, no update published since its registration
\* and describing another (older) state than the snapshot is waiting in its
\* channel to be delivered after it.
C28_NoOlderUpdate ==
    [][\A c \in Observers :
          (first_event[c] = NoEvent /\ first_event'[c] # NoEvent) =>
              \A i \in 1..Len(client_queue[c]) :
                  client_queue[c][i].type = "queue_update" =>
                      client_queue[c][i].queue = first_event'[c].queue]_vars

ThisPoll == SelectSeq(poll_log, LAMBDA e : e.poll = n_polls)
DoneIds(log) ==
    LET done == SelectSeq(log, LAMBDA e : e.step = "done")
    IN [i \in 1..Len(done) |-> done[i].job_id]
FailedEarly(e) == e.step \in {"download", "enqueue"}

\* C30: poll_and_queue records a remote file as processed only after its
\* download succeeded and the enqueue callback returned a job id; when the
\* download or the enqueue of a file fails the file gets no row (the next
\* poll lists it again), no job id is returned for it, and the files listed
\* after it are still handled in the same poll.
C30_RecordAfterEnqueue ==
    /\ [][gdrive_processed' # gdrive_processed =>
            /\ Len(poll_log') = Len(poll_log) + 1
            /\ LET e == poll_log'[Len(poll_log')]
               IN /\ e.step = "done"
                  /\ e.job_id # None
                  /\ gdrive_processed' = gdrive_processed
                         \cup { [drive_file_id |-> e.file, job_id |-> e.job_id] }]_vars
    /\ [][Len(poll_log') > Len(poll_log) =>
            LET e == poll_log'[Len(poll_log')]
            IN /\ e.file = Head(poll.new_files)
               /\ poll'.pc = "files"
               /\ poll'.new_files = Tail(poll.new_files)
               /\ FailedEarly(e) =>
                      /\ e.job_id = None
                      /\ gdrive_processed' = gdrive_processed
                      /\ poll'.job_ids = poll.job_ids
                      /\ ~(\E row \in gdrive_processed' : row.drive_file_id = e.file)]_vars
    /\ [][poll_and_queue_begin =>
            \A i \in 1..Len(poll_log) :
                (/\ FailedEarly(poll_log[i])
                 /\ ~(\E k \in (i + 1)..Len(poll_log) :
                          poll_log[k].file = poll_log[i].file /\ poll_log[k].step = "done"))
                    => \E k \in 1..Len(poll'.listed) :
                           poll'.listed[k] = poll_log[i].file]_vars
    /\ [](poll.job_ids = DoneIds(ThisPoll))
    /\ [](\A row \in gdrive_processed :
              \E i \in 1..Len(poll_log) :
                  /\ poll_log[i].file = row.drive_file_id
                  /\ poll_log[i].step = "done"
                  /\ poll_log[i].job_id = row.job_id)
    /\ [](PollAtEnd => \A f \in DriveFileIds : Listed(f) => Handled(n_polls, f) # {})

\* the first poll failed to download file 1 and then enqueued and recorded
\* file 2; the second poll lists file 1 again
C30_Witness ==
    /\ n_polls = 2
    /\ Len(poll_log) >= 2
    /\ poll_log[1] = [poll |-> 1, file |-> 1, step |-> "download", job_id |-> None]
    /\ poll_log[2] = [poll |-> 1, file |-> 2, step |-> "done", job_id |-> 1]
    /\ [drive_file_id |-> 2, job_id |-> 1] \in gdrive_processed
    /\ Listed(1)
    /\ ~Listed(2)
=============================================================================
